---- MODULE Spec2Model ----
(***************************************************************************)
(* Smart Task Analyzer: the scoring engine (tasks/scoring.py), the request *)
(* validation (tasks/serializers.py) and the two HTTP handlers with their  *)
(* module-level "latest analysis" cache (tasks/views.py).                  *)
(*                                                                         *)
(* Numbers.  Python floats are modelled by exact integers:                 *)
(*   - estimated_hours is held in tenths of an hour (20 = 2.0 h);          *)
(*   - a component (urgency, importance_norm, quick_win, dep_score) is     *)
(*     first a fraction <<num, den>> and, after round(x, 4), an integer    *)
(*     number of 1/10000;                                                  *)
(*   - a base score is an integer number of 1/10^7 (weights are held in    *)
(*     hundredths, the cycle factor 0.2 in tenths);                        *)
(*   - a final score, round(base * 100, 2), is an integer number of        *)
(*     hundredths of a point (7875 = 78.75).                               *)
(* Dates are day numbers.  Python's None / an absent key is the empty      *)
(* tuple <<>> and a present value x is <<x>>, for the fields that may be   *)
(* absent.                                                                 *)
(***************************************************************************)
EXTENDS Integers, Sequences, FiniteSets, TLC

VARIABLES
    today,           \* date.today(), a day number
    latestInput,     \* views._LATEST_INPUT: <<>> or <<[tasks |-> ...]>>
    latestAnalysis,  \* views._LATEST_ANALYSIS: <<>> or <<[generated_at, strategy, tasks, summary]>>
    request,         \* the request (or direct engine call) handled last
    response,        \* what it returned
    lastOk,          \* history: <<>> or <<[tasks |-> ...]>>, the validated batch of the
                     \* latest analyze request that succeeded
    clock,           \* timezone.now(), a counter that every reading advances
    pc,              \* threaded server: each request's position in its handler
    local,           \* threaded server: each request's parameters and local variables
    writer           \* threaded server, history: the request that last wrote each
                     \* cache variable (0: none)

vars ==
    <<today, latestInput, latestAnalysis, request, response, lastOk, clock, pc, local, writer>>

(***************************************************************************)
(* scoring.py: constants                                                   *)
(***************************************************************************)
DEFAULT_STRATEGY == "smart_balance"

STRATEGY_CHOICES == {"fastest_wins", "high_impact", "deadline_driven", "smart_balance"}

MAX_URGENCY_DAYS == 30

None == <<>>

Some(x) == <<x>>

NoTitle == "<no title key>"

Min(a, b) == IF a <= b THEN a ELSE b

Max(a, b) == IF a >= b THEN a ELSE b

\* round(num/den, ...) to an integer, ties to the even neighbour; num >= 0, den > 0.
\* Python rounds the float, so a decimal tie goes by the float's binary error: the
\* tasks drawn below give no score that is a tie.
RoundHalfEven(num, den) ==
    LET q == num \div den
        r == num % den
    IN  IF 2 * r < den THEN q
        ELSE IF 2 * r > den THEN q + 1
        ELSE IF q % 2 = 0 THEN q ELSE q + 1

\* round(x, 4) of the fraction x = <<num, den>>, in 1/10000
Round4(x) == RoundHalfEven(x[1] * 10000, x[2])

(***************************************************************************)
(* scoring.py: parse_tasks                                                 *)
(***************************************************************************)
\* A raw task dict: [id, title, due_date, estimated_hours, importance, dependencies];
\* id 0 is an absent (or falsy) id, title NoTitle an absent title key, and
\* due_date, estimated_hours and importance are <<>> when the key is absent.

\* TaskData(...) of one raw dict at 1-based position idx: raw.get("id") or idx
TaskData(raw, idx) ==
    [id              |-> IF raw.id # 0 THEN raw.id ELSE idx,
     title           |-> raw.title,
     due_date        |-> raw.due_date,
     estimated_hours |-> raw.estimated_hours[1],
     importance      |-> raw.importance[1],
     dependencies    |-> raw.dependencies]

\* raw["title"], raw["estimated_hours"], raw["importance"] raise KeyError when
\* the key is absent
ParseFails(payload) ==
    \E i \in 1..Len(payload) :
        \/ payload[i].title = NoTitle
        \/ payload[i].estimated_hours = None
        \/ payload[i].importance = None

parse_tasks(payload) == [i \in 1..Len(payload) |-> TaskData(payload[i], i)]

(***************************************************************************)
(* scoring.py: component calculators                                       *)
(***************************************************************************)
\* compute_urgency without the "1 -": urgency grows with the days left
compute_urgency_inverted(due, day) ==
    IF due = None THEN [urgency |-> <<1, 10>>, days_left |-> None]
    ELSE LET days_left == due[1] - day
         IN  IF days_left < 0
             THEN [urgency |-> <<1, 1>>, days_left |-> Some(days_left)]
             ELSE [urgency |-> <<Max(0, Min(days_left, MAX_URGENCY_DAYS)), MAX_URGENCY_DAYS>>,
                   days_left |-> Some(days_left)]

\* (urgency as a fraction, days_left); day is date.today()
compute_urgency(due, day) ==
    IF due = None THEN [urgency |-> <<1, 10>>, days_left |-> None]
    ELSE LET days_left == due[1] - day
         IN  IF days_left < 0
             THEN [urgency |-> <<1, 1>>, days_left |-> Some(days_left)]
             ELSE [urgency |-> <<Max(0, MAX_URGENCY_DAYS - Min(days_left, MAX_URGENCY_DAYS)),
                                 MAX_URGENCY_DAYS>>,
                   days_left |-> Some(days_left)]

compute_importance(value) == <<Min(Max(value, 0), 10), 10>>

\* hours in tenths: capped = min(max(hours, 0), 8.0); 1 - capped / 8
compute_quick_win(hours) == <<80 - Min(Max(hours, 0), 80), 80>>

(***************************************************************************)
(* scoring.py: build_dependency_graph                                      *)
(* A dict is its keys in insertion order plus a function on them.          *)
(***************************************************************************)
InSeq(x, s) == \E i \in 1..Len(s) : s[i] = x

AddKey(keys, k) == IF InSeq(k, keys) THEN keys ELSE Append(keys, k)

Get(keys, map, k, default) == IF InSeq(k, keys) THEN map[k] ELSE default

\* adjacency.setdefault(dependency, []).append(task_id);
\* dependent_counts[dependency] = dependent_counts.get(dependency, 0) + 1
AddEdge(g, dependency, task_id) ==
    LET dom == {g.keys[i] : i \in 1..Len(g.keys)} \cup {dependency}
    IN  [keys   |-> AddKey(g.keys, dependency),
         adj    |-> [k \in dom |-> IF k = dependency
                                   THEN Append(Get(g.keys, g.adj, k, <<>>), task_id)
                                   ELSE g.adj[k]],
         ckeys  |-> AddKey(g.ckeys, dependency),
         counts |-> [k \in dom |-> IF k = dependency
                                   THEN Get(g.ckeys, g.counts, k, 0) + 1
                                   ELSE g.counts[k]]]

RECURSIVE AddTaskEdges(_, _, _)
\* the inner loop: for dependency in task.dependencies (from position j on)
AddTaskEdges(g, task, j) ==
    IF j > Len(task.dependencies) THEN g
    ELSE AddTaskEdges(AddEdge(g, task.dependencies[j], task.id), task, j + 1)

RECURSIVE AddAllEdges(_, _, _)
\* the outer loop: for task in tasks (from position i on)
AddAllEdges(g, tasks, i) ==
    IF i > Len(tasks) THEN g
    ELSE AddAllEdges(AddTaskEdges(g, tasks[i], 1), tasks, i + 1)

RECURSIVE TaskKeys(_, _)
\* the keys of {task.id: ... for task in tasks}, in insertion order
TaskKeys(tasks, i) ==
    IF i = 0 THEN <<>> ELSE AddKey(TaskKeys(tasks, i - 1), tasks[i].id)

\* [keys, adj]: adjacency; [ckeys, counts]: dependent_counts
build_dependency_graph(tasks) ==
    LET keys == TaskKeys(tasks, Len(tasks))
        dom  == {keys[i] : i \in 1..Len(keys)}
    IN  AddAllEdges([keys   |-> keys, adj    |-> [k \in dom |-> <<>>],
                     ckeys  |-> keys, counts |-> [k \in dom |-> 0]],
                    tasks, 1)

(***************************************************************************)
(* scoring.py: find_cycles                                                 *)
(* st = [visited, stack, cycle_nodes], the three sets the closure shares.  *)
(***************************************************************************)
RECURSIVE dfs(_, _, _), dfsNeighbors(_, _, _, _)
\* the for loop of dfs(node), from neighbour position j on
dfsNeighbors(g, node, j, st) ==
    LET nbrs == Get(g.keys, g.adj, node, <<>>)
    IN  IF j > Len(nbrs) THEN st
        ELSE LET neighbor == nbrs[j]
                 st2 == IF neighbor \notin st.visited
                        THEN dfs(g, neighbor, st)
                        ELSE IF neighbor \in st.stack
                        THEN [st EXCEPT !.cycle_nodes = @ \cup st.stack]
                        ELSE st
             IN  dfsNeighbors(g, node, j + 1, st2)

dfs(g, node, st) ==
    LET entered == [st EXCEPT !.visited = @ \cup {node}, !.stack = @ \cup {node}]
        explored == dfsNeighbors(g, node, 1, entered)
    IN  [explored EXCEPT !.stack = @ \ {node}]

RECURSIVE dfsRoots(_, _, _)
\* for node in graph.keys(): if node not in visited: dfs(node)
dfsRoots(g, i, st) ==
    IF i > Len(g.keys) THEN st
    ELSE dfsRoots(g, i + 1,
                  IF g.keys[i] \notin st.visited THEN dfs(g, g.keys[i], st) ELSE st)

find_cycles(g) ==
    dfsRoots(g, 1, [visited |-> {}, stack |-> {}, cycle_nodes |-> {}]).cycle_nodes

(***************************************************************************)
(* scoring.py: strategy functions; components in 1/10000, weights in       *)
(* hundredths, result in 1/10^6                                            *)
(***************************************************************************)
score_fastest(c) == 60 * c.quick_win + 20 * c.importance_norm + 20 * c.urgency

score_high_impact(c) == 70 * c.importance_norm + 20 * c.urgency + 10 * c.dep_score

score_deadline(c) == 70 * c.urgency + 20 * c.importance_norm + 10 * c.quick_win

score_smart(c) ==
    35 * c.urgency + 35 * c.importance_norm + 15 * c.quick_win + 15 * c.dep_score

\* STRATEGY_FUNCTIONS[strategy](components)
STRATEGY_FUNCTIONS(strategy, c) ==
    CASE strategy = "fastest_wins"    -> score_fastest(c)
      [] strategy = "high_impact"     -> score_high_impact(c)
      [] strategy = "deadline_driven" -> score_deadline(c)
      [] strategy = "smart_balance"   -> score_smart(c)

(***************************************************************************)
(* scoring.py: score_tasks                                                 *)
(***************************************************************************)
\* max(dependents.values()) if dependents else 1
MaxDependents(g) ==
    IF Len(g.ckeys) = 0 THEN 1
    ELSE CHOOSE m \in {g.counts[g.ckeys[i]] : i \in 1..Len(g.ckeys)} :
             \A i \in 1..Len(g.ckeys) : g.counts[g.ckeys[i]] <= m

\* the components dict of one task: every score rounded to 4 places
Components(task, g, max_dep, day) ==
    LET u == compute_urgency(task.due_date, day)
        num_dependents == Get(g.ckeys, g.counts, task.id, 0)
        dep_score == IF max_dep # 0 THEN <<num_dependents, max_dep>> ELSE <<0, 1>>
    IN  [urgency         |-> Round4(u.urgency),
         importance_norm |-> Round4(compute_importance(task.importance)),
         quick_win       |-> Round4(compute_quick_win(task.estimated_hours)),
         dep_score       |-> Round4(dep_score),
         num_dependents  |-> num_dependents,
         days_left       |-> u.days_left]

\* base_score in 1/10^7: "base_score *= 0.2" for a task in cycle_nodes
PenalizedBase(base_score, cycle_issue) ==
    IF cycle_issue THEN base_score * 2 ELSE base_score * 10

\* round(base_score * 100, 2), in hundredths of a point
FinalScore(base7) == RoundHalfEven(base7, 1000)

\* the dict appended to scored_tasks for one task (no rank yet; the explanation
\* text is left out: nothing reads it back)
ScoredEntry(task, g, cycle_nodes, max_dep, strategy, day) ==
    LET components == Components(task, g, max_dep, day)
        cycle_issue == task.id \in cycle_nodes
    IN  [id              |-> task.id,
         title           |-> task.title,
         due_date        |-> task.due_date,
         estimated_hours |-> task.estimated_hours,
         importance      |-> task.importance,
         dependencies    |-> task.dependencies,
         score           |-> FinalScore(PenalizedBase(
                                 STRATEGY_FUNCTIONS(strategy, components), cycle_issue)),
         cycle_issue     |-> cycle_issue,
         components      |-> components]

RECURSIVE InsertByScore(_, _, _)
\* e goes after every entry whose score is >= its own (from position i on)
InsertByScore(sorted, e, i) ==
    IF i > Len(sorted) THEN Append(sorted, e)
    ELSE IF sorted[i].score >= e.score THEN InsertByScore(sorted, e, i + 1)
    ELSE SubSeq(sorted, 1, i - 1) \o <<e>> \o SubSeq(sorted, i, Len(sorted))

RECURSIVE InsertAscending(_, _, _)
\* e goes after every entry whose score is <= its own
InsertAscending(sorted, e, i) ==
    IF i > Len(sorted) THEN Append(sorted, e)
    ELSE IF sorted[i].score <= e.score THEN InsertAscending(sorted, e, i + 1)
    ELSE SubSeq(sorted, 1, i - 1) \o <<e>> \o SubSeq(sorted, i, Len(sorted))

RECURSIVE SortAscending(_, _)
SortAscending(entries, n) ==
    IF n = 0 THEN <<>>
    ELSE InsertAscending(SortAscending(entries, n - 1), entries[n], 1)

\* sorted ascending and then reversed: equal scores come out in reverse input order
sort_by_score_unstable(entries) ==
    LET asc == SortAscending(entries, Len(entries))
    IN  [i \in 1..Len(asc) |-> asc[Len(asc) + 1 - i]]

RECURSIVE SortFirst(_, _)
SortFirst(entries, n) ==
    IF n = 0 THEN <<>>
    ELSE InsertByScore(SortFirst(entries, n - 1), entries[n], 1)

\* scored_tasks.sort(key=lambda entry: entry["score"], reverse=True): a stable sort
sort_by_score(entries) == SortFirst(entries, Len(entries))

\* for idx, item in enumerate(scored_tasks, start=1): item["rank"] = idx
AssignRanks(entries) ==
    [i \in 1..Len(entries) |->
        [id              |-> entries[i].id,
         title           |-> entries[i].title,
         due_date        |-> entries[i].due_date,
         estimated_hours |-> entries[i].estimated_hours,
         importance      |-> entries[i].importance,
         dependencies    |-> entries[i].dependencies,
         score           |-> entries[i].score,
         cycle_issue     |-> entries[i].cycle_issue,
         components      |-> entries[i].components,
         rank            |-> i]]

RECURSIVE SumScores(_, _)
SumScores(tasks, n) == IF n = 0 THEN 0 ELSE SumScores(tasks, n - 1) + tasks[n].score

\* average_score is kept as the fraction <<sum of scores, number of tasks>>: the
\* code rounds the float mean to 2 places, and a mean that ends in half a hundredth
\* goes up or down with the float's binary error, which integers do not decide
build_summary(tasks, strategy) ==
    [strategy      |-> strategy,
     total_tasks   |-> Len(tasks),
     average_score |-> IF Len(tasks) > 0
                       THEN <<SumScores(tasks, Len(tasks)), Len(tasks)>>
                       ELSE <<0, 1>>,
     top_titles    |-> [i \in 1..Min(3, Len(tasks)) |-> tasks[i].title]]

\* score_tasks that parses the payload before it looks at the strategy
ScoreErrorParseFirst(tasks_payload, strategy) ==
    IF ParseFails(tasks_payload) THEN "KeyError"
    ELSE IF strategy \notin STRATEGY_CHOICES THEN "ValueError"
    ELSE ""

\* what the call raises, "" when it returns
ScoreError(tasks_payload, strategy) ==
    IF strategy \notin STRATEGY_CHOICES THEN "ValueError"
    ELSE IF ParseFails(tasks_payload) THEN "KeyError"
    ELSE ""

\* the scored entries of the parsed batch, in input order
ScoredTasks(parsed_tasks, g, strategy, day) ==
    [i \in 1..Len(parsed_tasks) |->
        ScoredEntry(parsed_tasks[i], g, find_cycles(g), MaxDependents(g), strategy, day)]

\* the dict the call returns (when ScoreError is ""), given the ranked entries
Returned(ranked, strategy) ==
    [error |-> "", strategy |-> strategy, tasks |-> ranked,
     summary |-> <<build_summary(ranked, strategy)>>]

\* the call from parse_tasks on
ScoreResult(tasks_payload, strategy, day) ==
    LET parsed_tasks == parse_tasks(tasks_payload)
    IN  Returned(AssignRanks(sort_by_score(
                     ScoredTasks(parsed_tasks, build_dependency_graph(parsed_tasks),
                                 strategy, day))),
                 strategy)

\* score_tasks(tasks_payload, strategy) on the day date.today() returns
score_tasks(tasks_payload, strategy, day) ==
    LET error == ScoreError(tasks_payload, strategy)
    IN  IF error # ""
        THEN [error |-> error, strategy |-> "", tasks |-> <<>>, summary |-> <<>>]
        ELSE ScoreResult(tasks_payload, strategy, day)

(***************************************************************************)
(* serializers.py: TaskSerializer, AnalyzeRequestSerializer                *)
(* Request data: [strategy, tasks]; strategy is <<>> when absent, a task   *)
(* is a raw dict as sent (the read-only id is ignored).                    *)
(***************************************************************************)
\* TaskSerializer's field checks on one submitted task
TaskFieldsValid(t) ==
    /\ t.title \notin {NoTitle, ""}
    /\ t.estimated_hours # None => t.estimated_hours[1] >= 1
    /\ t.importance # None => t.importance[1] \in 1..10
    /\ \A j \in 1..Len(t.dependencies) : t.dependencies[j] >= 1

\* AnalyzeRequestSerializer.validate: every dependency is a known id, none is
\* the task itself
DependenciesValid(tasks) ==
    \A idx \in 1..Len(tasks) :
        \A j \in 1..Len(tasks[idx].dependencies) :
            /\ tasks[idx].dependencies[j] \in 1..Len(tasks)
            /\ tasks[idx].dependencies[j] # idx

\* serializer.is_valid()
is_valid(data) ==
    /\ data.strategy # None => data.strategy[1] \in STRATEGY_CHOICES
    /\ Len(data.tasks) > 0
    /\ \A i \in 1..Len(data.tasks) : TaskFieldsValid(data.tasks[i])
    /\ DependenciesValid(data.tasks)

\* serializer.validated_data of valid data: the defaults of TaskSerializer.validate
\* (2.0 hours, importance 5) and task['id'] = idx
validated_data(data) ==
    [strategy |-> IF data.strategy # None THEN data.strategy[1] ELSE DEFAULT_STRATEGY,
     tasks    |-> [idx \in 1..Len(data.tasks) |->
                     [id              |-> idx,
                      title           |-> data.tasks[idx].title,
                      due_date        |-> data.tasks[idx].due_date,
                      estimated_hours |-> IF data.tasks[idx].estimated_hours # None
                                          THEN data.tasks[idx].estimated_hours
                                          ELSE Some(20),
                      importance      |-> IF data.tasks[idx].importance # None
                                          THEN data.tasks[idx].importance
                                          ELSE Some(5),
                      dependencies    |-> data.tasks[idx].dependencies]]]

(***************************************************************************)
(* views.py: the two handlers                                              *)
(* A handler's outcome: the response, the two cache variables after it and *)
(* whether it read timezone.now().                                         *)
(***************************************************************************)
HTTP_200_OK == 200

HTTP_400_BAD_REQUEST == 400

HTTP_404_NOT_FOUND == 404

HTTP_500_INTERNAL_SERVER_ERROR == 500

ErrorResponse(status) == [status |-> status, error |-> "", body |-> None]

\* Response(data, status=status.HTTP_200_OK)
OkResponse(data) == [status |-> HTTP_200_OK, error |-> "", body |-> Some(data)]

\* {"generated_at": generated_at, **analysis}
Stamped(generated_at, analysis) ==
    [generated_at |-> generated_at, strategy |-> analysis.strategy,
     tasks |-> analysis.tasks, summary |-> analysis.summary]

\* post once the analysis is stamped: both globals are assigned, then the response
Stored(tasks_payload, a) ==
    [response |-> OkResponse(a), input |-> Some([tasks |-> tasks_payload]),
     analysis |-> Some(a), read_now |-> TRUE]

\* post from score_tasks on, for validated data v
Scored(v, r, now, input, analysis) ==
    IF r.error # ""
    THEN [response |-> ErrorResponse(HTTP_500_INTERNAL_SERVER_ERROR),
          input |-> input, analysis |-> analysis, read_now |-> FALSE]
    ELSE Stored(v.tasks, Stamped(now, r))

\* post after validation
Validated(v, day, now, input, analysis) ==
    Scored(v, score_tasks(v.tasks, v.strategy, day), now, input, analysis)

\* TaskAnalyzeView.post, stores before it validates
post_store_first(data, day, now, input, analysis) ==
    IF ~is_valid(data)
    THEN [response |-> ErrorResponse(HTTP_400_BAD_REQUEST),
          input |-> Some([tasks |-> data.tasks]), analysis |-> analysis, read_now |-> FALSE]
    ELSE Validated(validated_data(data), day, now, input, analysis)

\* TaskAnalyzeView.post
post(data, day, now, input, analysis) ==
    IF ~is_valid(data)
    THEN [response |-> ErrorResponse(HTTP_400_BAD_REQUEST),
          input |-> input, analysis |-> analysis, read_now |-> FALSE]
    ELSE Validated(validated_data(data), day, now, input, analysis)

\* A limit query parameter: absent, the text of an integer, or other text
NoLimit == [kind |-> "absent", value |-> 0]

IntLimit(n) == [kind |-> "int", value |-> n]

TextLimit == [kind |-> "text", value |-> 0]

\* "if limit < 0" for "if limit <= 0"
coerce_limit_negative_only(limit) == IF limit < 0 THEN 1 ELSE limit

\* if limit <= 0: limit = 1
coerce_limit(limit) == IF limit <= 0 THEN 1 ELSE limit

\* seq[:n] for n >= 0
Take(seq, n) == SubSeq(seq, 1, Min(n, Len(seq)))

\* the guard placed after the strategy check
no_analysis_strategy_first(input, strategy_param) ==
    input = None /\ (strategy_param = None \/ strategy_param[1] \in STRATEGY_CHOICES)

\* the first guard of TaskSuggestView.get: "if not _LATEST_INPUT"
no_analysis(input, strategy_param) == input = None

\* get from score_tasks on: the stamp, the slice and the response
Served(r, strategy, limit, now, analysis) ==
    IF r.error # ""
    THEN [response |-> ErrorResponse(HTTP_500_INTERNAL_SERVER_ERROR), read_now |-> FALSE]
    ELSE [response |-> OkResponse([generated_at |-> IF analysis # None
                                                    THEN analysis[1].generated_at
                                                    ELSE now,
                                   strategy |-> strategy,
                                   limit    |-> limit,
                                   tasks    |-> Take(r.tasks, limit),
                                   summary  |-> r.summary]),
          read_now |-> analysis = None]

\* TaskSuggestView.get with query parameters strategy (<<>> when absent) and limit
get(strategy_param, limit_param, day, now, input, analysis) ==
    LET strategy == IF strategy_param # None THEN strategy_param[1] ELSE DEFAULT_STRATEGY
    IN  IF no_analysis(input, strategy_param)
        THEN [response |-> ErrorResponse(HTTP_404_NOT_FOUND), read_now |-> FALSE]
        ELSE IF strategy \notin STRATEGY_CHOICES
        THEN [response |-> ErrorResponse(HTTP_400_BAD_REQUEST), read_now |-> FALSE]
        ELSE IF limit_param.kind = "text"
        THEN [response |-> ErrorResponse(HTTP_400_BAD_REQUEST), read_now |-> FALSE]
        ELSE Served(score_tasks(input[1].tasks, strategy, day), strategy,
                    coerce_limit(IF limit_param.kind = "int" THEN limit_param.value ELSE 3),
                    now, analysis)

(***************************************************************************)
(* Bounds and the inputs drawn within them                                 *)
(***************************************************************************)
MaxTasks == 4        \* tasks in a submitted batch

MaxCallTasks == 1    \* tasks in a batch handed to score_tasks directly

MaxLimit == 4        \* largest limit query parameter

MaxClock == 2        \* readings of timezone.now()

\* what a client may send as a strategy: nothing, a known name, an unknown name
StrategyParams == {None} \cup {Some(s) : s \in STRATEGY_CHOICES \cup {"bogus"}}

\* the strategies batches are submitted with (tests.py submits "high_impact")
AnalyzeStrategyParams == {None, Some("high_impact"), Some("bogus")}

LimitParams == {NoLimit, TextLimit} \cup {IntLimit(n) : n \in -1..MaxLimit}

RawTask(title, due, hours, importance, deps) ==
    [id |-> 0, title |-> title, due_date |-> due, estimated_hours |-> hours,
     importance |-> importance, dependencies |-> deps]

\* a task of all defaults and a long, important task due on day 1, alternating
Alternating(first, n) ==
    [i \in 1..n |-> IF (i % 2 = 1) = first
                    THEN RawTask("a", None, None, None, <<>>)
                    ELSE RawTask("b", Some(1), Some(80), Some(8), <<>>)]

PlainBatches == {Alternating(first, n) : first \in BOOLEAN, n \in 0..MaxTasks}

Linked(deps1, deps2) ==
    <<RawTask("a", Some(1), Some(20), Some(5), deps1),
      RawTask("b", Some(1), Some(20), Some(5), deps2)>>

\* two-task batches with dependencies: a chain, a cycle, a duplicated dependency,
\* an unknown id, a self reference
LinkedBatches ==
    {Linked(<<>>, <<1>>), Linked(<<2>>, <<1>>), Linked(<<>>, <<1, 1>>),
     Linked(<<>>, <<3>>), Linked(<<1>>, <<>>)}

\* single tasks the field checks reject: no title, 0 hours, importance 11
RejectedTasks ==
    {RawTask(NoTitle, None, Some(20), Some(5), <<>>),
     RawTask("a", None, Some(0), Some(5), <<>>),
     RawTask("a", None, Some(20), Some(11), <<>>)}

AnalyzeBatches == PlainBatches \cup LinkedBatches \cup {<<t>> : t \in RejectedTasks}

AnalyzeData == [strategy : AnalyzeStrategyParams, tasks : AnalyzeBatches]

\* tasks for a direct call: a well-formed one and one with no title key
CallTasks ==
    {RawTask("a", Some(1), Some(20), Some(5), <<>>),
     RawTask(NoTitle, None, Some(20), Some(5), <<>>)}

CallBatches == UNION {[1..n -> CallTasks] : n \in 1..MaxCallTasks}

CallStrategies == STRATEGY_CHOICES \cup {"bogus"}

(***************************************************************************)
(* The service handling one request at a time                              *)
(***************************************************************************)
NoRequest == [op |-> "none", strategy |-> None, limit |-> NoLimit, tasks |-> <<>>]

Init ==
    /\ today = 0
    /\ latestInput = None
    /\ latestAnalysis = None
    /\ request = NoRequest
    /\ response = ErrorResponse(0)
    /\ lastOk = None
    /\ clock = 0
    /\ pc = <<>>
    /\ local = <<>>
    /\ writer = <<>>

\* POST /api/tasks/analyze/
Analyze(data) ==
    \E out \in {post(data, today, clock, latestInput, latestAnalysis)} :
        /\ out.read_now => clock < MaxClock
        /\ request' = [op |-> "analyze", strategy |-> data.strategy, limit |-> NoLimit,
                       tasks |-> data.tasks]
        /\ response' = out.response
        /\ latestInput' = out.input
        /\ latestAnalysis' = out.analysis
        /\ clock' = IF out.read_now THEN clock + 1 ELSE clock
        /\ lastOk' = IF out.response.status = HTTP_200_OK
                     THEN Some([tasks |-> validated_data(data).tasks])
                     ELSE lastOk
        /\ UNCHANGED <<today, pc, local, writer>>

\* GET /api/tasks/suggest/
Suggest(strategy_param, limit_param) ==
    \E out \in {get(strategy_param, limit_param, today, clock, latestInput, latestAnalysis)} :
        /\ out.read_now => clock < MaxClock
        /\ request' = [op |-> "suggest", strategy |-> strategy_param, limit |-> limit_param,
                       tasks |-> <<>>]
        /\ response' = out.response
        /\ clock' = IF out.read_now THEN clock + 1 ELSE clock
        /\ UNCHANGED <<today, latestInput, latestAnalysis, lastOk, pc, local, writer>>

\* a direct call of the engine: score_tasks(tasks_payload, strategy)
ScoreCall(tasks_payload, strategy) ==
    \E r \in {score_tasks(tasks_payload, strategy, today)} :
        /\ request' = [op |-> "score_tasks", strategy |-> Some(strategy), limit |-> NoLimit,
                       tasks |-> tasks_payload]
        /\ response' = [status |-> 0, error |-> r.error,
                        body |-> IF r.error = "" THEN Some(r) ELSE None]
        /\ UNCHANGED <<today, latestInput, latestAnalysis, lastOk, clock, pc, local, writer>>

Next ==
    \/ \E data \in AnalyzeData : Analyze(data)
    \/ \E s \in StrategyParams, l \in LimitParams : Suggest(s, l)
    \/ \E b \in CallBatches, s \in CallStrategies : ScoreCall(b, s)

Spec == Init /\ [][Next]_vars

(***************************************************************************)
(* Properties of the service handling one request at a time                *)
(***************************************************************************)
\* the strategy a request names: its parameter, or the default when absent
StrategyOf(req) == IF req.strategy # None THEN req.strategy[1] ELSE DEFAULT_STRATEGY

RequestData == [strategy |-> request.strategy, tasks |-> request.tasks]

AnalyzeSucceeded == request.op = "analyze" /\ response.status = HTTP_200_OK

SuggestSucceeded == request.op = "suggest" /\ response.status = HTTP_200_OK

CallReturned == request.op = "score_tasks" /\ response.error = ""

\* ranked lists the tasks of input (ids are input positions), each once, by score
\* descending, equal scores in input order, ranks 1..N
RankingOrdered(input, ranked) ==
    /\ Len(ranked) = Len(input)
    /\ \A i \in 1..Len(input) : \E j \in 1..Len(ranked) : ranked[j].id = i
    /\ \A j \in 1..Len(ranked) :
          /\ ranked[j].id \in 1..Len(input)
          /\ ranked[j].title = input[ranked[j].id].title
          /\ ranked[j].due_date = input[ranked[j].id].due_date
          /\ ranked[j].dependencies = input[ranked[j].id].dependencies
          /\ ranked[j].rank = j
    /\ \A i, j \in 1..Len(ranked) :
          i < j => \/ ranked[i].score > ranked[j].score
                   \/ ranked[i].score = ranked[j].score /\ ranked[i].id < ranked[j].id

\* C3: the task list score_tasks returns (to a direct caller, and through an
\* analyze response) is a permutation of the input batch ordered by final score
\* descending, tasks of equal score in input order, and the task at position i
\* has rank i.
C3_RankingStableDescending ==
    /\ CallReturned => RankingOrdered(request.tasks, response.body[1].tasks)
    /\ AnalyzeSucceeded =>
          RankingOrdered(validated_data(RequestData).tasks, response.body[1].tasks)

\* an analysis of three or more tasks in which the sort moved a task forward and
\* two tasks tie
C3_Witness ==
    /\ AnalyzeSucceeded
    /\ Len(response.body[1].tasks) >= 3
    /\ \E i, j \in 1..Len(response.body[1].tasks) :
          /\ i < j
          /\ response.body[1].tasks[i].id > response.body[1].tasks[j].id
    /\ \E i, j \in 1..Len(response.body[1].tasks) :
          /\ i < j
          /\ response.body[1].tasks[i].score = response.body[1].tasks[j].score

\* C4: a suggest request returns 404 exactly when no analyze request has
\* succeeded before it, whatever its parameters.
C4_NotFoundIffNeverAnalyzed ==
    request.op = "suggest" => (response.status = HTTP_404_NOT_FOUND <=> lastOk = None)

\* a suggest request with an unknown strategy and a non-integer limit answered 404
C4_Witness ==
    /\ request.op = "suggest"
    /\ request.strategy = Some("bogus")
    /\ request.limit = TextLimit
    /\ response.status = HTTP_404_NOT_FOUND

\* the limit a suggest request asks for: 3 when absent
LimitOf(req) == IF req.limit.kind = "int" THEN req.limit.value ELSE 3

\* C5: after a successful analyze, a suggest request with a valid strategy S and an
\* integer (or absent, read as 3) limit L returns strategy S and the first
\* min(max(L, 1), N) entries of score_tasks' ranking of the latest submitted batch
\* under S.
C5_SuggestServesLatestUnderStrategy ==
    (/\ request.op = "suggest"
     /\ lastOk # None
     /\ StrategyOf(request) \in STRATEGY_CHOICES
     /\ request.limit.kind # "text")
    => /\ response.status = HTTP_200_OK
       /\ response.body[1].strategy = StrategyOf(request)
       /\ response.body[1].tasks =
             SubSeq(score_tasks(lastOk[1].tasks, StrategyOf(request), today).tasks, 1,
                    Min(Max(LimitOf(request), 1), Len(lastOk[1].tasks)))

\* a second batch, of four tasks, was submitted; suggest without a limit, under
\* another strategy than the submission's, returned three of them
C5_Witness ==
    /\ SuggestSucceeded
    /\ clock = 2
    /\ request.limit = NoLimit
    /\ Len(lastOk[1].tasks) = 4
    /\ Len(response.body[1].tasks) = 3
    /\ response.body[1].strategy # latestAnalysis[1].strategy

UnknownStrategy(req) == req.strategy # None /\ req.strategy[1] \notin STRATEGY_CHOICES

\* score_tasks with an unknown strategy name fails with the invalid-strategy error
\* and returns nothing, for every batch
UnknownStrategyCallFails ==
    (request.op = "score_tasks" /\ UnknownStrategy(request))
    => (response.error = "ValueError" /\ response.body = None)

\* C6 as claimed: score_tasks with an unknown strategy name fails with the
\* invalid-strategy error, and a suggest request with such a name returns 400.
C6_UnknownStrategyIsBadRequest ==
    /\ UnknownStrategyCallFails
    /\ (request.op = "suggest" /\ UnknownStrategy(request))
       => response.status = HTTP_400_BAD_REQUEST

\* C6 as amended: score_tasks with an unknown strategy name fails with the
\* invalid-strategy error and returns nothing, for every batch; a suggest request
\* with such a name returns 400 when an analyze request has succeeded before it and
\* 404 otherwise, and leaves both cache variables unchanged.
C6_UnknownStrategyRejected ==
    /\ [](/\ UnknownStrategyCallFails
          /\ (request.op = "suggest" /\ UnknownStrategy(request))
             => response.status = IF lastOk = None THEN HTTP_404_NOT_FOUND
                                  ELSE HTTP_400_BAD_REQUEST)
    /\ [][(request'.op = "suggest" /\ UnknownStrategy(request'))
          => UNCHANGED <<latestInput, latestAnalysis>>]_vars

\* a direct call with a batch that lacks a title and an unknown strategy failed
\* with the invalid-strategy error, while a batch is cached
C6_Witness ==
    /\ request.op = "score_tasks"
    /\ UnknownStrategy(request)
    /\ ParseFails(request.tasks)
    /\ response.error = "ValueError"
    /\ latestInput # None

\* C10: an analyze request that fails, and any suggest request, leaves both cache
\* variables as they were; the cache holds the batch of the latest successful
\* analyze request and a successful suggest serves tasks of that batch.
C10_FailedRequestsKeepCache ==
    /\ [][(\/ request'.op = "analyze" /\ response'.status # HTTP_200_OK
           \/ request'.op = "suggest")
          => UNCHANGED <<latestInput, latestAnalysis>>]_vars
    /\ [](/\ latestInput = lastOk
          /\ SuggestSucceeded =>
                /\ response.body[1].summary[1].total_tasks = Len(lastOk[1].tasks)
                /\ \A j \in 1..Len(response.body[1].tasks) :
                      LET e == response.body[1].tasks[j]
                      IN  /\ e.title = lastOk[1].tasks[e.id].title
                          /\ e.dependencies = lastOk[1].tasks[e.id].dependencies)

\* an analyze request was rejected while a batch was cached
C10_Witness ==
    /\ request.op = "analyze"
    /\ response.status = HTTP_400_BAD_REQUEST
    /\ latestInput # None
    /\ latestAnalysis # None

(***************************************************************************)
(* The engine called directly, as tests.py calls it: the batch and the     *)
(* strategy are fixed at the start and one call is made.                   *)
(***************************************************************************)
MaxGraphTasks == 3   \* tasks in a batch with dependencies

MaxGraphDeps == 3    \* entries in one task's dependency list

MaxOverdue == 2      \* days a due date lies in the past

MaxDueDays == 32     \* days a due date lies ahead

Pending == [status |-> 0, error |-> "pending", body |-> None]

\* the dependency lists the serializer accepts for task i of n: ids of the other
\* tasks, in any order, repeats allowed
DependencyLists(n, i) == UNION {[1..k -> (1..n) \ {i}] : k \in 0..MaxGraphDeps}

\* batches of n like tasks (due today, 2 hours, importance 5) with every choice of
\* dependency lists
GraphBatches(n) ==
    {[i \in 1..n |-> RawTask("t", Some(0), Some(20), Some(5), deps[i])] :
        deps \in {d \in [1..n -> UNION {DependencyLists(n, i) : i \in 1..n}] :
                     \A i \in 1..n : d[i] \in DependencyLists(n, i)}}

DueDates == {None} \cup {Some(d) : d \in (0 - MaxOverdue)..MaxDueDays}

\* tasks without dependencies: any due date, 2 hours at importance 5 or 4 hours
\* at importance 8
DeadlineTasks ==
    {RawTask("t", due, Some(e[1]), Some(e[2]), <<>>) :
        due \in DueDates, e \in {<<20, 5>>, <<40, 8>>}}

DeadlinePairs == [1..2 -> DeadlineTasks]

InitCall(batches) ==
    /\ today = 0
    /\ latestInput = None
    /\ latestAnalysis = None
    /\ request \in [op : {"score_tasks"}, strategy : {Some(s) : s \in CallStrategies},
                    limit : {NoLimit}, tasks : batches]
    /\ response = Pending
    /\ lastOk = None
    /\ clock = 0
    /\ pc = <<>>
    /\ local = <<>>
    /\ writer = <<>>

\* the one call
Call == response = Pending /\ ScoreCall(request.tasks, request.strategy[1])

InitGraph == InitCall(UNION {GraphBatches(n) : n \in 1..MaxGraphTasks})

SpecGraph == InitGraph /\ [][Call]_vars

InitDeadline == InitCall(DeadlinePairs)

SpecDeadline == InitDeadline /\ [][Call]_vars

(***************************************************************************)
(* Properties of the engine                                                *)
(***************************************************************************)
Ids(tasks) == {tasks[i].id : i \in 1..Len(tasks)}

\* the tasks that list one of the ids in S as a dependency
DependentsOf(tasks, S) ==
    {tasks[i].id : i \in {k \in 1..Len(tasks) :
                            \E j \in 1..Len(tasks[k].dependencies) :
                                tasks[k].dependencies[j] \in S}}

RECURSIVE ReachedWithin(_, _, _)
\* the ids reached from the ids in S by 1..k edges (dependency -> dependent)
ReachedWithin(tasks, S, k) ==
    IF k = 0 THEN {}
    ELSE LET next == DependentsOf(tasks, S)
         IN  next \cup ReachedWithin(tasks, next, k - 1)

\* the ids that lie on a cycle: reachable from themselves by one or more edges
OnCycle(tasks) == {x \in Ids(tasks) : x \in ReachedWithin(tasks, {x}, Len(tasks))}

\* C1 as claimed: find_cycles returns exactly the ids that lie on a cycle of the
\* graph build_dependency_graph makes of the batch.
C1_FindCyclesExact ==
    CallReturned =>
        find_cycles(build_dependency_graph(parse_tasks(request.tasks)))
            = OnCycle(parse_tasks(request.tasks))

\* C2 as claimed: every task on a dependency cycle is returned with cycle_issue
\* true and a final score of round(0.2 * base_score * 100, 2).
C2_CycleTasksPenalized ==
    CallReturned =>
        \A j \in 1..Len(response.body[1].tasks) :
            LET e == response.body[1].tasks[j]
            IN  e.id \in OnCycle(parse_tasks(request.tasks))
                => /\ e.cycle_issue
                   /\ e.score = RoundHalfEven(
                          2 * STRATEGY_FUNCTIONS(request.strategy[1], e.components), 1000)

\* C7 as claimed: under smart_balance, of two tasks with the same due date,
\* importance and hours, neither on a cycle, the one that more tasks list as a
\* dependency scores strictly higher.
C7_MoreDependentsScoreHigher ==
    (CallReturned /\ request.strategy[1] = "smart_balance") =>
        \A i, j \in 1..Len(response.body[1].tasks) :
            LET a == response.body[1].tasks[i]
                b == response.body[1].tasks[j]
                tasks == parse_tasks(request.tasks)
            IN  (/\ a.due_date = b.due_date
                 /\ a.importance = b.importance
                 /\ a.estimated_hours = b.estimated_hours
                 /\ a.id \notin OnCycle(tasks)
                 /\ b.id \notin OnCycle(tasks)
                 /\ Cardinality(DependentsOf(tasks, {a.id}))
                        > Cardinality(DependentsOf(tasks, {b.id})))
                => a.score > b.score

DaysLeft(e) == e.due_date[1] - today

\* C8: under deadline_driven, in a batch without dependencies, of two tasks with
\* equal importance and hours an overdue one scores strictly higher than one due
\* in one or more days, and of two that are not overdue the one with fewer days
\* left never scores lower.
C8_DeadlineOrder ==
    (CallReturned /\ request.strategy[1] = "deadline_driven") =>
        \A i, j \in 1..Len(response.body[1].tasks) :
            LET a == response.body[1].tasks[i]
                b == response.body[1].tasks[j]
            IN  (/\ a.importance = b.importance
                 /\ a.estimated_hours = b.estimated_hours
                 /\ a.due_date # None
                 /\ b.due_date # None)
                => /\ (DaysLeft(a) < 0 /\ DaysLeft(b) >= 1) => a.score > b.score
                   /\ (0 <= DaysLeft(a) /\ DaysLeft(a) < DaysLeft(b)) => a.score >= b.score

\* deadline_driven scored a task one day overdue above a like task due tomorrow
C8_Witness ==
    /\ CallReturned
    /\ request.strategy[1] = "deadline_driven"
    /\ Len(response.body[1].tasks) = 2
    /\ LET a == response.body[1].tasks[1]
           b == response.body[1].tasks[2]
       IN  /\ a.importance = b.importance
           /\ a.estimated_hours = b.estimated_hours
           /\ a.due_date = Some(today - 1)
           /\ b.due_date = Some(today + 1)
           /\ a.score > b.score

(***************************************************************************)
(* The service on a threaded server: requests run their handlers           *)
(* concurrently, a thread switch may fall between any two accesses to the  *)
(* module globals _LATEST_INPUT and _LATEST_ANALYSIS.                      *)
(***************************************************************************)
MaxRequests == 3     \* requests the server handles

Requests == 1..MaxRequests

\* what is submitted: two different one-task batches and an empty one
ConcurrentData == [strategy : {None}, tasks : {Alternating(first, n) : first \in BOOLEAN, n \in 0..1}]

ConcurrentStrategies == {None, Some("fastest_wins")}

NoLocal ==
    [op |-> "none", data |-> [strategy |-> None, tasks |-> <<>>], strategy |-> None,
     limit |-> NoLimit, tasks_payload |-> <<>>, analysis |-> None, generated_at |-> 0,
     input_writer |-> 0, stamp_writer |-> 0, response |-> ErrorResponse(0)]

InitConcurrent ==
    /\ today = 0
    /\ latestInput = None
    /\ latestAnalysis = None
    /\ request = NoRequest
    /\ response = ErrorResponse(0)
    /\ lastOk = None
    /\ clock = 0
    /\ pc = [r \in Requests |-> "idle"]
    /\ local = [r \in Requests |-> NoLocal]
    /\ writer = [input |-> 0, analysis |-> 0]

\* a POST /api/tasks/analyze/ arrives
StartAnalyze(r, data) ==
    /\ pc[r] = "idle"
    /\ pc' = [pc EXCEPT ![r] = "post_begin"]
    /\ local' = [local EXCEPT ![r] = [NoLocal EXCEPT !.op = "analyze", !.data = data]]
    /\ UNCHANGED <<today, latestInput, latestAnalysis, request, response, lastOk, clock, writer>>

\* a GET /api/tasks/suggest/ arrives
StartSuggest(r, strategy_param) ==
    /\ pc[r] = "idle"
    /\ pc' = [pc EXCEPT ![r] = "get_check"]
    /\ local' = [local EXCEPT ![r] = [NoLocal EXCEPT !.op = "suggest",
                                                     !.strategy = strategy_param]]
    /\ UNCHANGED <<today, latestInput, latestAnalysis, request, response, lastOk, clock, writer>>

\* post, up to generated_at = timezone.now(): validation, score_tasks, the clock
PostBegin(r) ==
    /\ pc[r] = "post_begin"
    /\ IF ~is_valid(local[r].data)
       THEN /\ pc' = [pc EXCEPT ![r] = "done"]
            /\ local' = [local EXCEPT ![r].response = ErrorResponse(HTTP_400_BAD_REQUEST)]
            /\ clock' = clock
       ELSE LET v == validated_data(local[r].data)
                a == score_tasks(v.tasks, v.strategy, today)
            IN  /\ pc' = [pc EXCEPT ![r] = "post_store_input"]
                /\ local' = [local EXCEPT ![r].tasks_payload = v.tasks,
                                          ![r].analysis = Some(a),
                                          ![r].generated_at = clock]
                /\ clock' = clock + 1
    /\ UNCHANGED <<today, latestInput, latestAnalysis, request, response, lastOk, writer>>

\* _LATEST_INPUT = {"tasks": tasks_payload}
PostStoreInput(r) ==
    /\ pc[r] = "post_store_input"
    /\ latestInput' = Some([tasks |-> local[r].tasks_payload])
    /\ writer' = [writer EXCEPT !.input = r]
    /\ pc' = [pc EXCEPT ![r] = "post_store_analysis"]
    /\ UNCHANGED <<today, latestAnalysis, request, response, lastOk, clock, local>>

\* _LATEST_ANALYSIS = {"generated_at": generated_at, **analysis}
PostStoreAnalysis(r) ==
    /\ pc[r] = "post_store_analysis"
    /\ latestAnalysis' = Some(Stamped(local[r].generated_at, local[r].analysis[1]))
    /\ writer' = [writer EXCEPT !.analysis = r]
    /\ pc' = [pc EXCEPT ![r] = "post_respond"]
    /\ UNCHANGED <<today, latestInput, request, response, lastOk, clock, local>>

\* return Response(_LATEST_ANALYSIS, ...): the global is read once more
PostRespond(r) ==
    /\ pc[r] = "post_respond"
    /\ local' = [local EXCEPT ![r].response = OkResponse(latestAnalysis[1])]
    /\ pc' = [pc EXCEPT ![r] = "done"]
    /\ UNCHANGED <<today, latestInput, latestAnalysis, request, response, lastOk, clock, writer>>

\* get, up to the limit: "if not _LATEST_INPUT" and the parameter checks
GetCheck(r) ==
    /\ pc[r] = "get_check"
    /\ LET strategy == StrategyOf(local[r])
       IN  IF no_analysis(latestInput, local[r].strategy)
           THEN /\ pc' = [pc EXCEPT ![r] = "done"]
                /\ local' = [local EXCEPT ![r].response = ErrorResponse(HTTP_404_NOT_FOUND)]
           ELSE IF strategy \notin STRATEGY_CHOICES \/ local[r].limit.kind = "text"
           THEN /\ pc' = [pc EXCEPT ![r] = "done"]
                /\ local' = [local EXCEPT ![r].response = ErrorResponse(HTTP_400_BAD_REQUEST)]
           ELSE /\ pc' = [pc EXCEPT ![r] = "get_score"]
                /\ local' = local
    /\ UNCHANGED <<today, latestInput, latestAnalysis, request, response, lastOk, clock, writer>>

\* analysis = score_tasks(_LATEST_INPUT["tasks"], strategy=strategy_param)
GetScore(r) ==
    /\ pc[r] = "get_score"
    /\ local' = [local EXCEPT
                    ![r].analysis = Some(score_tasks(latestInput[1].tasks,
                                                     StrategyOf(local[r]), today)),
                    ![r].input_writer = writer.input]
    /\ pc' = [pc EXCEPT ![r] = "get_stamp"]
    /\ UNCHANGED <<today, latestInput, latestAnalysis, request, response, lastOk, clock, writer>>

\* generated_at = _LATEST_ANALYSIS["generated_at"] if _LATEST_ANALYSIS else
\* timezone.now(), and the response
GetStamp(r) ==
    /\ pc[r] = "get_stamp"
    /\ LET generated_at == IF latestAnalysis # None THEN latestAnalysis[1].generated_at
                           ELSE clock
           limit == coerce_limit(LimitOf(local[r]))
       IN  local' = [local EXCEPT
                        ![r].generated_at = generated_at,
                        ![r].stamp_writer = writer.analysis,
                        ![r].response =
                            [status |-> HTTP_200_OK, error |-> "",
                             body |-> Some([generated_at |-> generated_at,
                                            strategy |-> StrategyOf(local[r]),
                                            limit    |-> limit,
                                            tasks    |-> Take(local[r].analysis[1].tasks, limit),
                                            summary  |-> local[r].analysis[1].summary])]]
    /\ clock' = IF latestAnalysis # None THEN clock ELSE clock + 1
    /\ pc' = [pc EXCEPT ![r] = "done"]
    /\ UNCHANGED <<today, latestInput, latestAnalysis, request, response, lastOk, writer>>

NextConcurrent ==
    \E r \in Requests :
        \/ \E data \in ConcurrentData : StartAnalyze(r, data)
        \/ \E s \in ConcurrentStrategies : StartSuggest(r, s)
        \/ PostBegin(r)
        \/ PostStoreInput(r)
        \/ PostStoreAnalysis(r)
        \/ PostRespond(r)
        \/ GetCheck(r)
        \/ GetScore(r)
        \/ GetStamp(r)

SpecConcurrent == InitConcurrent /\ [][NextConcurrent]_vars

\* no analyze request stands between its two cache writes
NoWriteInProgress == \A r \in Requests : pc[r] # "post_store_analysis"

\* C9 as claimed: the two cache variables come from the same analyze request, and
\* a suggest response never pairs one submission's tasks with another's
\* generated_at.  (Stated outside the window between one request's two writes,
\* where the variables differ even without a second writer; a suggest response
\* stamped with its own timezone.now(), stamp_writer 0, pairs nothing.)
C9_CacheFromOneRequest ==
    /\ NoWriteInProgress => writer.input = writer.analysis
    /\ \A r \in Requests :
          (/\ pc[r] = "done"
           /\ local[r].op = "suggest"
           /\ local[r].response.status = HTTP_200_OK)
          => local[r].stamp_writer \in {0, local[r].input_writer}

====
